---- MODULE Spec2Model ----
(***************************************************************************)
(* Model of story_bot_gemini.py: an unattended interactive-story bot.      *)
(* Each cycle (run_story_step) loads the state file, closes the previous   *)
(* poll and takes its winner, publishes the next story part, publishes a   *)
(* new poll of 4 options and saves the state.                              *)
(*                                                                         *)
(* Strings are kept exactly, in run-length form: a string is a sequence of *)
(* runs [ch, n] (n >= 1 copies of the character ch), adjacent runs having  *)
(* different characters, so that two strings are equal exactly when their  *)
(* run sequences are equal.  "SP" is a space, "NL" a newline.              *)
(* Optional values are sequences of length at most one: None is <<>>, a    *)
(* present value x is <<x>>.                                               *)
(***************************************************************************)
EXTENDS Integers, Sequences, FiniteSets, TLC

\* ---------------------------------------------------------------- bounds
\* message ids grow without bound: a cycle starts only while the channel has
\* room for the 2 messages it may publish
MaxMessages == 6
\* votes per option and options per poll, for get_poll_winner on any poll
MaxVotes == 2
MaxOpts == 4
\* room in the channel where every cycle is followed to its end
MaxLoopMessages == 4

\* ------------------------------------------------------ program constants
MAX_POST_CHARS == 500
MaxOptionChars == 90
MinOptionChars == 5
PollOptionCount == 4

\* ---------------------------------------------------------------- strings
None == <<>>
Some(x) == <<x>>

Whitespace == {"SP", "NL"}

Str(c, k) == IF k = 0 THEN <<>> ELSE <<[ch |-> c, n |-> k]>>

\* a + b
Concat(a, b) ==
    IF a = <<>> THEN b
    ELSE IF b = <<>> THEN a
    ELSE IF a[Len(a)].ch = b[1].ch
         THEN SubSeq(a, 1, Len(a) - 1)
                \o <<[ch |-> b[1].ch, n |-> a[Len(a)].n + b[1].n]>>
                \o Tail(b)
         ELSE a \o b

RECURSIVE StrLen(_)
StrLen(s) == IF s = <<>> THEN 0 ELSE s[1].n + StrLen(Tail(s))

RECURSIVE LStrip(_)
LStrip(s) == IF s # <<>> /\ s[1].ch \in Whitespace THEN LStrip(Tail(s)) ELSE s

RECURSIVE RStrip(_)
RStrip(s) ==
    IF s # <<>> /\ s[Len(s)].ch \in Whitespace
    THEN RStrip(SubSeq(s, 1, Len(s) - 1))
    ELSE s

\* s.strip()
Strip(s) == RStrip(LStrip(s))

\* s[:k]
RECURSIVE Prefix(_, _)
Prefix(s, k) ==
    IF s = <<>> \/ k <= 0 THEN <<>>
    ELSE IF s[1].n <= k THEN <<s[1]>> \o Prefix(Tail(s), k - s[1].n)
    ELSE <<[ch |-> s[1].ch, n |-> k]>>

\* s.endswith("\n\n")
EndsWithBlankLine(s) ==
    s # <<>> /\ s[Len(s)].ch = "NL" /\ s[Len(s)].n >= 2

\* b.startswith(a)
StartsWith(b, a) ==
    \/ a = <<>>
    \/ /\ Len(a) <= Len(b)
       /\ \A i \in 1..(Len(a) - 1) : a[i] = b[i]
       /\ a[Len(a)].ch = b[Len(a)].ch
       /\ a[Len(a)].n <= b[Len(a)].n

\* Python truthiness of an Optional[str]: None and "" are false
Truthy(opt) == opt # None /\ opt[1] # <<>>

\* ------------------------------------------------------------- constants
\* the default INITIAL_STORY_IDEA: 246 characters, the last one a newline
DefaultIdea == Concat(Str("i", 245), Str("NL", 1))

\* "Продолжай логично и интересно."
GenericPrompt == Str("g", 30)

\* a mutant of FallbackA: the first fixed fallback set has 3 entries
FallbackAOfThree == <<Str("A1", 29), Str("A2", 20), Str("A3", 22)>>

\* the first fixed fallback set of poll options
FallbackA == <<Str("A1", 29), Str("A2", 20), Str("A3", 22), Str("A4", 18)>>

\* the second fixed fallback set of poll options
FallbackB == <<Str("B1", 18), Str("B2", 16), Str("B3", 17), Str("B4", 18)>>

\* --------------------------------------------------------- pure functions
\* a mutant of validate_config: the initial story idea is not checked
validate_config_no_idea(token, channel, idea) ==
    token # "" /\ channel # ""

\* validate_config: all three settings must be non-empty
validate_config(token, channel, idea) ==
    token # "" /\ channel # "" /\ idea # <<>>

DefaultState == [current_story |-> <<>>, last_poll_message_id |-> None]

\* load_state: file is None when STATE_FILE does not exist; readOk is FALSE
\* when opening or parsing the file raises
load_state(file, readOk) ==
    IF file # None
    THEN IF readOk THEN file[1] ELSE DefaultState
    ELSE DefaultState

\* generate_story_continuation after the request: reply is None when the
\* request raised or the reply held no JSON object, else Some(story_part)
generate_story_continuation(reply) ==
    IF reply = None THEN None
    ELSE LET part == Prefix(Strip(reply[1]), MAX_POST_CHARS)
         IN  IF part = <<>> THEN None ELSE Some(part)

\* the filtering loop of generate_poll_options; an item of options_raw is
\* [isStr, s]
RECURSIVE FilterOptions(_)
FilterOptions(raw) ==
    IF raw = <<>> THEN <<>>
    ELSE LET o == raw[1]
             s == Prefix(Strip(o.s), MaxOptionChars)
         IN  IF o.isStr /\ StrLen(s) >= MinOptionChars
             THEN <<s>> \o FilterOptions(Tail(raw))
             ELSE FilterOptions(Tail(raw))

\* a mutant of generate_poll_options: the number of options is not checked
generate_poll_options_any(reply) ==
    IF reply = None THEN None ELSE Some(FilterOptions(reply[1]))

\* generate_poll_options after the request: reply is None when the request
\* raised or the reply had no "options", else Some(options_raw)
generate_poll_options(reply) ==
    IF reply = None THEN None
    ELSE LET options == FilterOptions(reply[1])
         IN  IF Len(options) # PollOptionCount THEN None ELSE Some(options)

\* generate_poll_options(...) or the first fallback set: the value whose
\* length run_story_step checks
GeneratedOrFallback(generated) ==
    IF generated # None /\ generated[1] # <<>> THEN generated[1] ELSE FallbackA

\* the options handed to send_poll
ChoosePollOptions(generated) ==
    LET first == GeneratedOrFallback(generated)
        second == IF Len(first) # PollOptionCount THEN FallbackB ELSE first
    IN  [i \in 1..Len(second) |-> Prefix(second[i], MaxOptionChars)]

\* a mutant of ScanOptions: an option that ties the maximum replaces the leader
RECURSIVE ScanOptionsLastLeader(_, _, _, _)
ScanOptionsLastLeader(options, i, max_votes, winning_options) ==
    IF i > Len(options)
    THEN [max_votes |-> max_votes, winning_options |-> winning_options]
    ELSE IF options[i].voter_count >= max_votes
         THEN ScanOptionsLastLeader(options, i + 1, options[i].voter_count,
                                    <<options[i].text>>)
    ELSE ScanOptionsLastLeader(options, i + 1, max_votes, winning_options)

\* the scan of get_poll_winner over options[i..], an option being
\* [text, voter_count]
RECURSIVE ScanOptions(_, _, _, _)
ScanOptions(options, i, max_votes, winning_options) ==
    IF i > Len(options)
    THEN [max_votes |-> max_votes, winning_options |-> winning_options]
    ELSE IF options[i].voter_count > max_votes
         THEN ScanOptions(options, i + 1, options[i].voter_count,
                          <<options[i].text>>)
    ELSE IF options[i].voter_count = max_votes /\ max_votes > 0
         THEN ScanOptions(options, i + 1, max_votes,
                          Append(winning_options, options[i].text))
    ELSE ScanOptions(options, i + 1, max_votes, winning_options)

\* a mutant of get_poll_winner: without votes the first option is taken
get_poll_winner_first(options) ==
    LET r == ScanOptions(options, 1, -1, <<>>)
    IN  IF r.max_votes > 0 THEN {Some(r.winning_options[1])}
        ELSE IF options # <<>> THEN {Some(options[1].text)}
        ELSE {None}

\* the result of get_poll_winner once stop_poll returned the poll: the set
\* of values it can return (random.choice makes it more than one)
get_poll_winner(options) ==
    LET r == ScanOptions(options, 1, -1, <<>>)
    IN  IF r.max_votes > 0 /\ Len(r.winning_options) = 1
        THEN {Some(r.winning_options[1])}
        ELSE IF r.max_votes > 0
        THEN {Some(r.winning_options[1])}
        ELSE IF options # <<>>
        THEN {Some(options[i].text) : i \in DOMAIN options}
        ELSE {None}

\* ------------------------------------------------------------------ inputs
\* an INITIAL_STORY_IDEA from the environment that ends with a blank line
BlankLineIdea == Concat(Str("j", 40), Str("NL", 2))

Ideas == {<<>>, DefaultIdea, BlankLineIdea}
Tokens == {"", "token"}
Channels == {"", "@channel"}

\* replies of the model to the story request
StoryReplies ==
    { None,
      Some(<<>>),
      Some(Str("SP", 3)),
      Some(Concat(Str("NL", 1),
                  Concat(Str("p", 120), Concat(Str("NL", 2), Str("q", 400))))) }

Item(s) == [isStr |-> TRUE, s |-> s]
NonString == [isStr |-> FALSE, s |-> <<>>]

\* replies of the model to the poll options request
OptionReplies ==
    { None,
      Some(<<Item(Str("a", 10)), Item(Str("b", 12)), Item(Str("c", 8)),
             Item(Concat(Str("SP", 1), Concat(Str("d", 4), Str("SP", 2))))>>),
      Some(<<Item(Str("a", 10)), Item(Concat(Str("SP", 2), Str("b", 95))),
             NonString, Item(Str("c", 8)), Item(Str("d", 20))>>),
      Some(<<Item(Concat(Str("SP", 1), Str("a", 95))), Item(Str("a", 90)),
             Item(Str("c", 8)), Item(Str("d", 20))>>),
      Some(<<Item(Str("a", 10)), Item(Str("b", 12)), Item(Str("c", 8)),
             Item(Str("d", 20)), Item(Str("e", 6))>>) }

\* final tallies of a poll of 4 options
VoteOutcomes ==
    { <<0, 0, 0, 0>>, <<1, 5, 2, 0>>, <<3, 3, 1, 0>> }

Failures == {"TelegramError", "Exception"}

\* ------------------------------------------------------------------- state
VARIABLES
    BOT_TOKEN,              \* configuration, read once at import
    CHANNEL_ID,
    INITIAL_STORY_IDEA,
    pc,                     \* position of the process
    STATE_FILE,             \* None when the file does not exist, else Some(state)
    tmp,                    \* the temporary sibling file of save_state
    channel,                \* what the channel holds; a message id is an index
    state,                  \* run_story_step: what load_state returned
    current_story,
    last_poll_message_id,
    next_prompt,
    new_part,
    options_raw,            \* generate_poll_options: the options of the reply
    poll_options,           \* the options handed to send_poll
    new_poll_message_id,
    updated_poll,           \* get_poll_winner: the options stop_poll returned
    poll_winner,
    outcome,                \* how the cycle ended
    fileAtLoad,             \* STATE_FILE when the cycle began
    sentAtLoad,             \* Len(channel) when the cycle began
    user_choice,            \* Some(prompt) once the story generator was called
    saves,                  \* the calls of save_state in this cycle
    text,                   \* _extract_json: its argument, a sequence of characters
    parts,                  \* the prose and the JSON object text is made of
    data                    \* _extract_json: its result

vars == <<BOT_TOKEN, CHANNEL_ID, INITIAL_STORY_IDEA, pc, STATE_FILE, tmp,
          channel, state, current_story, last_poll_message_id, next_prompt,
          new_part, options_raw, poll_options, new_poll_message_id,
          updated_poll, poll_winner, outcome, fileAtLoad, sentAtLoad,
          user_choice, saves, text, parts, data>>

config == <<BOT_TOKEN, CHANNEL_ID, INITIAL_STORY_IDEA>>
files == <<STATE_FILE, tmp>>
locals == <<state, current_story, last_poll_message_id, next_prompt,
            new_part, options_raw, poll_options, new_poll_message_id,
            updated_poll, poll_winner>>
history == <<outcome, fileAtLoad, sentAtLoad, user_choice, saves>>
parser == <<text, parts, data>>

NoParts == [before |-> <<>>, object |-> <<>>, value |-> <<>>, after |-> <<>>]

\* _extract_json is not running
NoParser ==
    /\ text = <<>>
    /\ parts = NoParts
    /\ data = None

Message(body) ==
    [kind |-> "message", text |-> body, options |-> <<>>,
     closed |-> FALSE, votes |-> <<>>]

PollMessage(options) ==
    [kind |-> "poll", text |-> <<>>, options |-> options,
     closed |-> FALSE, votes |-> <<>>]

\* the Poll that stop_poll returns
PollResult(m) ==
    [i \in 1..Len(m.options) |->
        [text |-> m.options[i], voter_count |-> m.votes[i]]]

\* no cycle is running: run_story_step has no frame
NoFrame ==
    /\ state = DefaultState
    /\ current_story = <<>>
    /\ last_poll_message_id = None
    /\ next_prompt = None
    /\ new_part = None
    /\ options_raw = None
    /\ poll_options = <<>>
    /\ new_poll_message_id = None
    /\ updated_poll = <<>>
    /\ poll_winner = None
    /\ outcome = "none"
    /\ fileAtLoad = None
    /\ sentAtLoad = 0
    /\ user_choice = None
    /\ saves = <<>>

Init ==
    /\ BOT_TOKEN \in Tokens
    /\ CHANNEL_ID \in Channels
    /\ INITIAL_STORY_IDEA \in Ideas
    /\ pc = "main"
    /\ STATE_FILE = None
    /\ tmp = None
    /\ channel = <<>>
    /\ NoFrame
    /\ NoParser

\* __main__: the loop is entered only with a valid configuration
Main ==
    /\ pc = "main"
    /\ pc' = IF validate_config(BOT_TOKEN, CHANNEL_ID, INITIAL_STORY_IDEA)
             THEN "load" ELSE "exit"
    /\ UNCHANGED <<parser, config, files, channel, locals, history>>

\* run_story_step, up to the try block; a cycle publishes at most 2 messages
\* and starts only while the channel has room for them
LoadWithin(room) ==
    /\ pc = "load"
    /\ Len(channel) + 2 <= room
    /\ \E readOk \in BOOLEAN :
        /\ STATE_FILE = None => readOk
        /\ state' = load_state(STATE_FILE, readOk)
    /\ current_story' = state'.current_story
    /\ last_poll_message_id' = state'.last_poll_message_id
    /\ next_prompt' = None
    /\ new_poll_message_id' = None
    /\ outcome' = "running"
    /\ fileAtLoad' = STATE_FILE
    /\ sentAtLoad' = Len(channel)
    /\ pc' = "resolve"
    /\ UNCHANGED <<parser, config, files, channel, new_part, options_raw,
                   poll_options, updated_poll, poll_winner, user_choice,
                   saves>>

Load == LoadWithin(MaxMessages)

\* a mutant of Handled: the last handler is missing, so that an exception
\* that is neither RuntimeError nor TelegramError leaves run_forever
HandledNotAll(kind) ==
    /\ pc' = IF kind = "Exception" THEN "exit" ELSE "sleep"
    /\ outcome' = kind

\* an exception handler of run_story_step ends the cycle
Handled(kind) ==
    /\ pc' = "sleep"
    /\ outcome' = kind

\* a mutant of StopPollFailed: the TelegramError of stop_poll leaves
\* get_poll_winner and ends the cycle
StopPollFailedRaising ==
    /\ Handled("TelegramError")
    /\ UNCHANGED <<channel, updated_poll, poll_winner, next_prompt>>

\* stop_poll raises TelegramError: get_poll_winner logs it and returns None,
\* and step 1 takes the initial idea as the prompt
StopPollFailed ==
    /\ poll_winner' = None
    /\ next_prompt' = Some(INITIAL_STORY_IDEA)
    /\ pc' = "story"
    /\ UNCHANGED <<channel, updated_poll, outcome>>

\* step 1 of run_story_step, with get_poll_winner
ResolvePoll ==
    /\ pc = "resolve"
    /\ IF last_poll_message_id # None
       THEN LET id == last_poll_message_id[1] IN
            \/ StopPollFailed
            \/ \* stop_poll raises something else: not caught there
               /\ Handled("Exception")
               /\ UNCHANGED <<channel, updated_poll, poll_winner, next_prompt>>
            \/ \* stop_poll closes the poll and returns its final tally; the
               \* platform refuses to stop a poll that is already closed
               /\ ~channel[id].closed
               /\ \E votes \in VoteOutcomes :
                    channel' = [channel EXCEPT ![id].closed = TRUE,
                                               ![id].votes = votes]
               /\ updated_poll' = PollResult(channel'[id])
               /\ poll_winner' \in get_poll_winner(updated_poll')
               /\ next_prompt' = IF Truthy(poll_winner') THEN poll_winner'
                                 ELSE Some(INITIAL_STORY_IDEA)
               /\ pc' = "story"
               /\ UNCHANGED outcome
       ELSE /\ next_prompt' = Some(INITIAL_STORY_IDEA)
            /\ pc' = "story"
            /\ UNCHANGED <<channel, updated_poll, poll_winner, outcome>>
    /\ UNCHANGED <<parser, config, files, state, current_story, last_poll_message_id,
                   new_part, options_raw, poll_options, new_poll_message_id,
                   fileAtLoad, sentAtLoad, user_choice, saves>>

\* a mutant of AppendPart: the new part replaces the story
AppendPartReplacing(story, part) == part

\* current_story += ("\n\n" if not current_story.endswith("\n\n") else "") + new_part
AppendPart(story, part) ==
    Concat(Concat(story, IF EndsWithBlankLine(story) THEN <<>> ELSE Str("NL", 2)),
           part)

\* a mutant of StartStory: the published idea is not kept as the story
StartStoryNotKept ==
    /\ UNCHANGED <<next_prompt, new_part, user_choice>>
    /\ \/ /\ channel' = Append(channel, Message(INITIAL_STORY_IDEA))
          /\ pc' = "poll"
          /\ UNCHANGED <<outcome, current_story>>
       \/ /\ \E kind \in Failures : Handled(kind)
          /\ UNCHANGED <<channel, current_story>>

\* step 2 of run_story_step, the story is empty: publish the initial idea
StartStory ==
    /\ UNCHANGED <<next_prompt, new_part, user_choice>>
    /\ \/ /\ channel' = Append(channel, Message(INITIAL_STORY_IDEA))
          /\ current_story' = INITIAL_STORY_IDEA
          /\ pc' = "poll"
          /\ UNCHANGED outcome
       \/ /\ \E kind \in Failures : Handled(kind)
          /\ UNCHANGED <<channel, current_story>>

\* a mutant of ContinueStory: the reply is published before it is checked
ContinueStorySendFirst(reply) ==
    /\ next_prompt' = IF Truthy(next_prompt) THEN next_prompt
                      ELSE Some(GenericPrompt)
    /\ user_choice' = next_prompt'
    /\ new_part' = generate_story_continuation(reply)
    /\ channel' = Append(channel,
                         Message(IF new_part' = None THEN <<>> ELSE new_part'[1]))
    /\ IF ~Truthy(new_part') \/ Strip(new_part'[1]) = <<>>
       THEN /\ Handled("RuntimeError")
            /\ UNCHANGED current_story
       ELSE /\ current_story' = AppendPart(current_story, new_part'[1])
            /\ pc' = "poll"
            /\ UNCHANGED outcome

\* a mutant of ContinueStory: an error of send_message is caught and logged
\* where it happens, and the cycle goes on with the part appended
ContinueStoryCatching(reply) ==
    /\ next_prompt' = IF Truthy(next_prompt) THEN next_prompt
                      ELSE Some(GenericPrompt)
    /\ user_choice' = next_prompt'
    /\ new_part' = generate_story_continuation(reply)
    /\ IF ~Truthy(new_part') \/ Strip(new_part'[1]) = <<>>
       THEN /\ Handled("RuntimeError")
            /\ UNCHANGED <<channel, current_story>>
       ELSE /\ \/ channel' = Append(channel, Message(new_part'[1]))
               \/ UNCHANGED channel
            /\ current_story' = AppendPart(current_story, new_part'[1])
            /\ pc' = "poll"
            /\ UNCHANGED outcome

\* step 2 of run_story_step, the story is not empty: generate the next part
ContinueStory(reply) ==
    /\ next_prompt' = IF Truthy(next_prompt) THEN next_prompt
                      ELSE Some(GenericPrompt)
    /\ user_choice' = next_prompt'
    /\ new_part' = generate_story_continuation(reply)
    /\ IF ~Truthy(new_part') \/ Strip(new_part'[1]) = <<>>
       THEN /\ Handled("RuntimeError")
            /\ UNCHANGED <<channel, current_story>>
       ELSE \/ /\ channel' = Append(channel, Message(new_part'[1]))
               /\ current_story' = AppendPart(current_story, new_part'[1])
               /\ pc' = "poll"
               /\ UNCHANGED outcome
            \/ /\ \E kind \in Failures : Handled(kind)
               /\ UNCHANGED <<channel, current_story>>

\* step 2 of run_story_step
PublishStory ==
    /\ pc = "story"
    /\ IF current_story = <<>>
       THEN StartStory
       ELSE \E reply \in StoryReplies : ContinueStory(reply)
    /\ UNCHANGED <<parser, config, files, state, last_poll_message_id, options_raw,
                   poll_options, new_poll_message_id, updated_poll,
                   poll_winner, fileAtLoad, sentAtLoad, saves>>

\* a mutant of PublishPoll: an error of send_poll is caught and logged where
\* it happens, and the cycle goes on
PublishPollCatching ==
    /\ pc = "poll"
    /\ \E reply \in OptionReplies :
         /\ options_raw' = reply
         /\ poll_options' = ChoosePollOptions(generate_poll_options(reply))
    /\ \/ /\ channel' = Append(channel, PollMessage(poll_options'))
          /\ new_poll_message_id' = Some(Len(channel'))
       \/ UNCHANGED <<channel, new_poll_message_id>>
    /\ pc' = "save"
    /\ UNCHANGED <<parser, config, files, state, current_story, last_poll_message_id,
                   next_prompt, new_part, updated_poll, poll_winner,
                   outcome, fileAtLoad, sentAtLoad, user_choice, saves>>

\* step 3 of run_story_step
PublishPoll ==
    /\ pc = "poll"
    /\ \E reply \in OptionReplies :
         /\ options_raw' = reply
         /\ poll_options' = ChoosePollOptions(generate_poll_options(reply))
    /\ \/ /\ channel' = Append(channel, PollMessage(poll_options'))
          /\ new_poll_message_id' = Some(Len(channel'))
          /\ pc' = "save"
          /\ UNCHANGED outcome
       \/ /\ \E kind \in Failures : Handled(kind)
          /\ UNCHANGED <<channel, new_poll_message_id>>
    /\ UNCHANGED <<parser, config, files, state, current_story, last_poll_message_id,
                   next_prompt, new_part, updated_poll, poll_winner,
                   fileAtLoad, sentAtLoad, user_choice, saves>>

\* a mutant of NewState: the id of the previous poll is saved again
NewStateOldId(story, old_id, new_id) ==
    [current_story |-> story, last_poll_message_id |-> old_id]

\* the state handed to save_state
NewState(story, old_id, new_id) ==
    [current_story |-> story, last_poll_message_id |-> new_id]

\* a mutant of SaveState: an exception escapes save_state after the rename
SaveStateRaising ==
    /\ pc = "save"
    /\ STATE_FILE' = Some(NewState(current_story, last_poll_message_id,
                                   new_poll_message_id))
    /\ tmp' = None
    /\ saves' = Append(saves, "ok")
    /\ outcome' = "Exception"
    /\ pc' = "sleep"
    /\ UNCHANGED <<parser, config, channel, locals, fileAtLoad, sentAtLoad,
                   user_choice>>

\* step 4 of run_story_step, with save_state
SaveState ==
    /\ pc = "save"
    /\ LET new == NewState(current_story, last_poll_message_id,
                           new_poll_message_id) IN
       \/ \* written and renamed over the target
          /\ STATE_FILE' = Some(new)
          /\ tmp' = None
          /\ saves' = Append(saves, "ok")
       \/ \* the write of the temporary file raises
          /\ UNCHANGED <<STATE_FILE, tmp>>
          /\ saves' = Append(saves, "failed")
       \/ \* os.replace raises
          /\ tmp' = Some(new)
          /\ UNCHANGED STATE_FILE
          /\ saves' = Append(saves, "failed")
    /\ outcome' = "ok"
    /\ pc' = "sleep"
    /\ UNCHANGED <<parser, config, channel, locals, fileAtLoad, sentAtLoad,
                   user_choice>>

\* a mutant of Interrupt: save_state writes the state file in place
InterruptInPlace ==
    /\ pc = "save"
    /\ STATE_FILE' = Some(NewState(current_story, last_poll_message_id,
                                   new_poll_message_id))
    /\ saves' = Append(saves, "interrupted")
    /\ pc' = "killed"
    /\ UNCHANGED <<parser, config, tmp, channel, locals, outcome, fileAtLoad,
                   sentAtLoad, user_choice>>

\* the process is killed in save_state, after the temporary file is written
\* and before os.replace
Interrupt ==
    /\ pc = "save"
    /\ tmp' = Some(NewState(current_story, last_poll_message_id,
                            new_poll_message_id))
    /\ saves' = Append(saves, "interrupted")
    /\ pc' = "killed"
    /\ UNCHANGED <<parser, config, STATE_FILE, channel, locals, outcome, fileAtLoad,
                   sentAtLoad, user_choice>>

\* the script is started again with the same configuration
Restart ==
    /\ pc = "killed"
    /\ pc' = "main"
    /\ state' = DefaultState
    /\ current_story' = <<>>
    /\ last_poll_message_id' = None
    /\ next_prompt' = None
    /\ new_part' = None
    /\ options_raw' = None
    /\ poll_options' = <<>>
    /\ new_poll_message_id' = None
    /\ updated_poll' = <<>>
    /\ poll_winner' = None
    /\ outcome' = "none"
    /\ fileAtLoad' = None
    /\ sentAtLoad' = 0
    /\ user_choice' = None
    /\ saves' = <<>>
    /\ UNCHANGED <<parser, config, files, channel>>

\* run_forever: run_story_step has returned; sleep, then the next cycle
Sleep ==
    /\ pc = "sleep"
    /\ pc' = "load"
    /\ state' = DefaultState
    /\ current_story' = <<>>
    /\ last_poll_message_id' = None
    /\ next_prompt' = None
    /\ new_part' = None
    /\ options_raw' = None
    /\ poll_options' = <<>>
    /\ new_poll_message_id' = None
    /\ updated_poll' = <<>>
    /\ poll_winner' = None
    /\ outcome' = "none"
    /\ fileAtLoad' = None
    /\ sentAtLoad' = 0
    /\ user_choice' = None
    /\ saves' = <<>>
    /\ UNCHANGED <<parser, config, files, channel>>

Next ==
    \/ Main
    \/ Load
    \/ ResolvePoll
    \/ PublishStory
    \/ PublishPoll
    \/ SaveState
    \/ Sleep
    \/ Interrupt
    \/ Restart

Spec == Init /\ [][Next]_vars

\* the loop of a process that is not killed, on a shorter channel
LoadLoop == LoadWithin(MaxLoopMessages)

NextLoop ==
    \/ Main
    \/ LoadLoop
    \/ ResolvePoll
    \/ PublishStory
    \/ PublishPoll
    \/ SaveState
    \/ Sleep

\* the external calls return and asyncio.sleep ends: a step that can be
\* taken is taken
FairSpec == Init /\ [][NextLoop]_vars /\ WF_vars(NextLoop)

\* ------------------------------------------- get_poll_winner on any poll
OptionText(i) == Str("t", MinOptionChars + i)

\* every poll of at most MaxOpts options with at most MaxVotes votes each
Polls ==
    UNION { { [i \in 1..k |-> [text |-> OptionText(i), voter_count |-> v[i]]]
              : v \in [1..k -> 0..MaxVotes] } : k \in 0..MaxOpts }

InitWinner ==
    /\ BOT_TOKEN = "token"
    /\ CHANNEL_ID = "@channel"
    /\ INITIAL_STORY_IDEA = DefaultIdea
    /\ pc = "winner"
    /\ STATE_FILE = None
    /\ tmp = None
    /\ channel = <<>>
    /\ state = DefaultState
    /\ current_story = <<>>
    /\ last_poll_message_id = None
    /\ next_prompt = None
    /\ new_part = None
    /\ options_raw = None
    /\ poll_options = <<>>
    /\ new_poll_message_id = None
    /\ updated_poll \in Polls
    /\ poll_winner = None
    /\ outcome = "none"
    /\ fileAtLoad = None
    /\ sentAtLoad = 0
    /\ user_choice = None
    /\ saves = <<>>
    /\ NoParser

\* get_poll_winner once stop_poll has returned updated_poll
PollWinner ==
    /\ pc = "winner"
    /\ poll_winner' \in get_poll_winner(updated_poll)
    /\ pc' = "won"
    /\ UNCHANGED <<parser, config, files, channel, state, current_story,
                   last_poll_message_id, next_prompt, new_part, options_raw,
                   poll_options, new_poll_message_id, updated_poll, history>>

NextWinner == PollWinner

SpecWinner == InitWinner /\ [][NextWinner]_vars

\* ---- _extract_json on texts of single characters ----

\* total number of prose characters around the embedded object
MaxProse == 3

\* the double quote character
Quote == "QUOTE"
Blank == " "

\* the character at position i of t, "EOF" past its end
At(t, i) == IF i \in DOMAIN t THEN t[i] ELSE "EOF"

RECURSIVE SkipBlanks(_, _)
SkipBlanks(t, i) == IF At(t, i) = Blank THEN SkipBlanks(t, i + 1) ELSE i

\* str.strip() of a text of characters
Trim(t) ==
    LET first == SkipBlanks(t, 1)
        RECURSIVE Last(_)
        Last(j) == IF j >= first /\ t[j] = Blank THEN Last(j - 1) ELSE j
    IN  SubSeq(t, first, Last(Len(t)))

\* text.find(c): the first position of c, 0 when there is none
Find(t, c) ==
    IF \E i \in DOMAIN t : t[i] = c
    THEN CHOOSE i \in DOMAIN t : t[i] = c /\ \A j \in 1..(i - 1) : t[j] # c
    ELSE 0

\* text.rfind(c): the last position of c, 0 when there is none
RFind(t, c) ==
    IF \E i \in DOMAIN t : t[i] = c
    THEN CHOOSE i \in DOMAIN t : t[i] = c /\ \A j \in (i + 1)..Len(t) : t[j] # c
    ELSE 0

\* a decoding step: whether it succeeded, the position after the value
\* and the value, written without insignificant blanks
NoParse == [ok |-> FALSE, next |-> 0, val |-> <<>>]
Parsed(next, val) == [ok |-> TRUE, next |-> next, val |-> val]

\* a JSON string: from a quote to the next quote
ParseString(t, i) ==
    IF At(t, i) = Quote /\ \E j \in (i + 1)..Len(t) : t[j] = Quote
    THEN LET j == CHOOSE j \in (i + 1)..Len(t) :
                      t[j] = Quote /\ \A k \in (i + 1)..(j - 1) : t[k] # Quote
         IN  Parsed(j + 1, SubSeq(t, i, j))
    ELSE NoParse

RECURSIVE DigitsEnd(_, _)
DigitsEnd(t, i) == IF At(t, i) = "1" THEN DigitsEnd(t, i + 1) ELSE i

\* a JSON number: a run of digits
ParseNumber(t, i) ==
    IF At(t, i) = "1"
    THEN Parsed(DigitsEnd(t, i), SubSeq(t, i, DigitsEnd(t, i) - 1))
    ELSE NoParse

RECURSIVE ParseValue(_, _)

\* a JSON object with at most one member
ParseObject(t, i) ==
    LET j == SkipBlanks(t, i + 1)
        key == ParseString(t, j)
        k == SkipBlanks(t, key.next)
        v == ParseValue(t, SkipBlanks(t, k + 1))
        m == SkipBlanks(t, v.next)
    IN  IF At(t, j) = "}" THEN Parsed(j + 1, <<"{", "}">>)
        ELSE IF key.ok /\ At(t, k) = ":" /\ v.ok /\ At(t, m) = "}"
             THEN Parsed(m + 1, <<"{">> \o key.val \o <<":">> \o v.val \o <<"}">>)
             ELSE NoParse

\* a JSON array with at most one element
ParseArray(t, i) ==
    LET j == SkipBlanks(t, i + 1)
        v == ParseValue(t, j)
        m == SkipBlanks(t, v.next)
    IN  IF At(t, j) = "]" THEN Parsed(j + 1, <<"[", "]">>)
        ELSE IF v.ok /\ At(t, m) = "]"
             THEN Parsed(m + 1, <<"[">> \o v.val \o <<"]">>)
             ELSE NoParse

ParseValue(t, i) ==
    CASE At(t, i) = "{" -> ParseObject(t, i)
      [] At(t, i) = "[" -> ParseArray(t, i)
      [] At(t, i) = Quote -> ParseString(t, i)
      [] At(t, i) = "1" -> ParseNumber(t, i)
      [] OTHER -> NoParse

\* json.loads: the value of the whole text, None when it raises
json_loads(t) ==
    LET v == ParseValue(t, SkipBlanks(t, 1))
    IN  IF v.ok /\ SkipBlanks(t, v.next) = Len(t) + 1 THEN Some(v.val) ELSE None

\* _extract_json cutting at the first closing brace
extract_json_first_close(raw) ==
    LET t == Trim(raw)
        start == Find(t, "{")
        end == Find(t, "}")
    IN  IF t = <<>> THEN None
        ELSE IF json_loads(t) # None THEN json_loads(t)
        ELSE IF start # 0 /\ end # 0 /\ end > start
             THEN json_loads(SubSeq(t, start, end))
             ELSE None

_extract_json(raw) ==
    LET t == Trim(raw)
        start == Find(t, "{")
        end == RFind(t, "}")
    IN  IF t = <<>> THEN None
        ELSE IF json_loads(t) # None THEN json_loads(t)
        ELSE IF start # 0 /\ end # 0 /\ end > start
             THEN json_loads(SubSeq(t, start, end))
             ELSE None

\* the characters prose is made of
\* the backquote character of a code fence
Fence == "FENCE"

ProseChars == {"w", Blank, Fence, "{", "}", "[", "]"}

Prose(n) == UNION {[1..k -> ProseChars] : k \in 0..n}

\* JSON objects: as written in the text, and the value they denote
Objects ==
    { [object |-> <<"{", "}">>,
       value  |-> <<"{", "}">>],
      [object |-> <<"{", Blank, Quote, "w", Quote, ":", "1", "}">>,
       value  |-> <<"{", Quote, "w", Quote, ":", "1", "}">>],
      [object |-> <<"{", Quote, Quote, ":", "{", "}", Blank, "}">>,
       value  |-> <<"{", Quote, Quote, ":", "{", "}", "}">>] }

\* a reply that embeds an object in prose, before _extract_json runs
InitJson ==
    /\ BOT_TOKEN = "token"
    /\ CHANNEL_ID = "@channel"
    /\ INITIAL_STORY_IDEA = DefaultIdea
    /\ pc = "extract"
    /\ STATE_FILE = None
    /\ tmp = None
    /\ channel = <<>>
    /\ NoFrame
    /\ \E o \in Objects, before \in Prose(MaxProse), after \in Prose(MaxProse) :
          /\ Len(before) + Len(after) <= MaxProse
          /\ parts = [before |-> before, object |-> o.object,
                      value |-> o.value, after |-> after]
          /\ text = before \o o.object \o after
    /\ data = None

ExtractJson ==
    /\ pc = "extract"
    /\ pc' = "extracted"
    /\ data' = _extract_json(text)
    /\ UNCHANGED <<text, parts, config, files, channel, state, current_story,
                   last_poll_message_id, next_prompt, new_part, options_raw,
                   poll_options, new_poll_message_id, updated_poll, poll_winner,
                   history>>

NextJson == ExtractJson

SpecJson == InitJson /\ [][NextJson]_vars

\* ------------------------------------------------------------------ claims
VoterCounts(options) == {options[i].voter_count : i \in DOMAIN options}

MaxVoterCount(options) ==
    CHOOSE m \in VoterCounts(options) : \A c \in VoterCounts(options) : c <= m

\* the first option, in the poll's order, that has the maximum voter_count
FirstLeader(options) ==
    options[CHOOSE i \in DOMAIN options :
              /\ options[i].voter_count = MaxVoterCount(options)
              /\ \A j \in 1..(i - 1) :
                    options[j].voter_count # MaxVoterCount(options)]

Leaders(options) ==
    {i \in DOMAIN options : options[i].voter_count = MaxVoterCount(options)}

\* C5: for every closed poll whose maximum voter_count is greater than 0,
\* get_poll_winner returns the text of the first option, in the poll's
\* order, whose voter_count is that maximum, one leader or several.
C5_FirstLeaderWins ==
    (pc = "won" /\ updated_poll # <<>> /\ MaxVoterCount(updated_poll) > 0)
        => /\ poll_winner = Some(FirstLeader(updated_poll).text)
           /\ get_poll_winner(updated_poll)
                = {Some(FirstLeader(updated_poll).text)}

\* C5 witness: a tie whose first leader is not the first option
C5_Witness ==
    /\ pc = "won"
    /\ Len(updated_poll) >= 3
    /\ MaxVoterCount(updated_poll) > 0
    /\ Cardinality(Leaders(updated_poll)) >= 2
    /\ 1 \notin Leaders(updated_poll)
    /\ poll_winner = Some(FirstLeader(updated_poll).text)

\* C6: for every closed poll in which no option received a vote,
\* get_poll_winner returns the text of one of the options, each option being
\* a possible result, and it returns None exactly when there are no options.
C6_NoVotes ==
    (\A i \in DOMAIN updated_poll : updated_poll[i].voter_count = 0)
        => /\ get_poll_winner(updated_poll)
                = IF updated_poll = <<>> THEN {None}
                  ELSE {Some(updated_poll[i].text) : i \in DOMAIN updated_poll}
           /\ pc = "won" =>
                /\ poll_winner = None <=> updated_poll = <<>>
                /\ poll_winner # None =>
                     \E i \in DOMAIN updated_poll :
                        poll_winner = Some(updated_poll[i].text)

\* C6 witness: without votes, an option other than the first was returned
C6_Witness ==
    /\ pc = "won"
    /\ Len(updated_poll) >= 2
    /\ \A i \in DOMAIN updated_poll : updated_poll[i].voter_count = 0
    /\ poll_winner = Some(updated_poll[Len(updated_poll)].text)

\* the state a successful load_state reads from the file as it is
DiskState == load_state(STATE_FILE, TRUE)

DiskStory == DiskState.current_story

HandlerOutcomes == {"RuntimeError", "TelegramError", "Exception"}

PollIds == {i \in DOMAIN channel : channel[i].kind = "poll"}

\* C1 as stated: after a cycle that ended through an exception handler the
\* state on disk equals the state load_state returned at its start.
C1_DiskEqualsLoaded ==
    (pc = "sleep" /\ outcome \in HandlerOutcomes) => DiskState = state

\* C1 amended: after a cycle that ended through an exception handler the
\* state file is the file the cycle started from and save_state was not
\* called; the state load_state returned is the state of that file, or the
\* default state when the existing file could not be read.
C1_AbortKeepsFile ==
    (pc = "sleep" /\ outcome \in HandlerOutcomes)
        => /\ STATE_FILE = fileAtLoad
           /\ saves = <<>>
           /\ \/ state = DiskState
              \/ STATE_FILE # None /\ state = DefaultState

\* C1 witness: a cycle that read a saved state, published the next part and
\* then ended through the TelegramError handler
C1_Witness ==
    /\ pc = "sleep"
    /\ outcome = "TelegramError"
    /\ STATE_FILE # None
    /\ state = DiskState
    /\ Len(channel) > sentAtLoad

\* C2: after any sequence of cycles the persisted last_poll_message_id is
\* absent or is the id of the most recently published poll, and that poll is
\* still open.
C2_LastPollOpen ==
    pc = "sleep"
        => \/ DiskState.last_poll_message_id = None
           \/ LET id == DiskState.last_poll_message_id[1] IN
              /\ id \in PollIds
              /\ \A j \in PollIds : j <= id
              /\ ~channel[id].closed

\* C3 as stated: whenever the story on disk changes, its previous value is a
\* prefix of the new one, also when load_state fell back to the default state.
C3_AppendOnly ==
    [][StartsWith(DiskStory', DiskStory)]_vars

\* C3 amended: whenever the story on disk changes in a cycle whose load_state
\* read the state file or found none, its previous value is a prefix of the
\* new one; in a cycle whose load_state fell back to the default state because
\* the existing file could not be read, the story on disk stays or becomes the
\* initial story idea.
C3_AppendOnlyWhenRead ==
    [][IF state = load_state(fileAtLoad, TRUE)
       THEN StartsWith(DiskStory', DiskStory)
       ELSE DiskStory' \in {DiskStory, INITIAL_STORY_IDEA}]_vars

\* C3 witness: a cycle read a saved story and saved a longer one
C3_Witness ==
    /\ pc = "sleep"
    /\ saves = <<"ok">>
    /\ fileAtLoad # None
    /\ state = fileAtLoad[1]
    /\ DiskStory # fileAtLoad[1].current_story
    /\ StartsWith(DiskStory, fileAtLoad[1].current_story)

TopVotes(m) ==
    CHOOSE v \in {m.votes[i] : i \in DOMAIN m.votes} :
        \A i \in DOMAIN m.votes : m.votes[i] <= v

UniqueTop(m) ==
    /\ m.closed
    /\ TopVotes(m) > 0
    /\ Cardinality({i \in DOMAIN m.votes : m.votes[i] = TopVotes(m)}) = 1

TopOption(m) ==
    m.options[CHOOSE i \in DOMAIN m.votes : m.votes[i] = TopVotes(m)]

\* C4: whenever a cycle generates a continuation and the poll of the persisted
\* last_poll_message_id ended with a unique top option that has a vote, the
\* user_choice given to generate_story_continuation is that option's text.
C4_WinnerIsUserChoice ==
    (user_choice # None /\ last_poll_message_id # None
        /\ UniqueTop(channel[last_poll_message_id[1]]))
        => user_choice = Some(TopOption(channel[last_poll_message_id[1]]))

\* the number of valid strings in the reply to the poll options request
ValidCount(raw) ==
    IF raw = None THEN 0
    ELSE Cardinality({i \in DOMAIN raw[1] :
                        /\ raw[1][i].isStr
                        /\ StrLen(Strip(raw[1][i].s)) >= MinOptionChars})

\* C7: every published poll has exactly 4 options of at most 90 characters;
\* when generate_poll_options does not yield exactly 4 valid strings, the
\* poll published is the first fixed fallback set.
C7_FourOptions ==
    /\ \A i \in PollIds :
          /\ Len(channel[i].options) = 4
          /\ \A j \in DOMAIN channel[i].options :
                StrLen(channel[i].options[j]) <= 90
    /\ (new_poll_message_id # None /\ ValidCount(options_raw) # 4)
          => channel[new_poll_message_id[1]].options = FallbackA

\* C7 witness: only 3 valid strings were generated and the first fallback
\* set was published
C7_Witness ==
    /\ pc = "save"
    /\ options_raw # None
    /\ Len(options_raw[1]) = 4
    /\ ValidCount(options_raw) = 3
    /\ new_poll_message_id = Some(Len(channel))
    /\ channel[Len(channel)].options = FallbackA

Distinct(options) ==
    \A i, j \in DOMAIN options : i # j => options[i] # options[j]

\* C8: generated options that are not mutually distinct are replaced by a
\* fallback set, so the options of every published poll, and the options
\* handed to send_poll, are mutually distinct.
C8_DistinctOptions ==
    /\ Distinct(poll_options)
    /\ \A i \in PollIds : Distinct(channel[i].options)

\* what a cycle that loaded an empty story and ended without an exception
\* has published
C9_Published ==
    /\ Len(channel) = sentAtLoad + 2
    /\ channel[sentAtLoad + 1] = Message(INITIAL_STORY_IDEA)
    /\ user_choice = None
    /\ channel[sentAtLoad + 2].kind = "poll"
    /\ Len(channel[sentAtLoad + 2].options) = 4

C9_Persisted ==
    [current_story |-> INITIAL_STORY_IDEA,
     last_poll_message_id |-> Some(sentAtLoad + 2)]

\* C9 as stated: a cycle that loads an empty story and in which no platform
\* call fails publishes the initial idea verbatim without calling the story
\* generator, publishes a poll of 4 options, and the state on disk at the end
\* is {the initial idea, the id of that poll}.
C9_FirstCycle ==
    (pc = "sleep" /\ outcome = "ok" /\ state.current_story = <<>>)
        => /\ C9_Published
           /\ STATE_FILE = Some(C9_Persisted)

\* C9 amended: such a cycle publishes the initial idea verbatim without
\* calling the story generator, publishes a poll of 4 options and hands
\* {the initial idea, the id of that poll} to save_state once; that is the
\* state on disk at the end when the write succeeds, and the file is left as
\* it was when the write fails.
C9_FirstCycleSaved ==
    (pc = "sleep" /\ outcome = "ok" /\ state.current_story = <<>>)
        => /\ C9_Published
           /\ NewState(current_story, last_poll_message_id,
                       new_poll_message_id) = C9_Persisted
           /\ Len(saves) = 1
           /\ saves = <<"ok">> => STATE_FILE = Some(C9_Persisted)
           /\ saves = <<"failed">> => STATE_FILE = fileAtLoad

\* C9 witness: the first cycle ran without a failure and saved its state
C9_Witness ==
    /\ pc = "sleep"
    /\ outcome = "ok"
    /\ state.current_story = <<>>
    /\ fileAtLoad = None
    /\ saves = <<"ok">>
    /\ STATE_FILE = Some(C9_Persisted)
    /\ channel[1] = Message(INITIAL_STORY_IDEA)

\* C10: a cycle with a non-empty story whose generate_story_continuation
\* yields None is aborted: no story message and no poll are published,
\* save_state is not called and the state file stays as it was.
C10_NoContinuationAborts ==
    (\/ user_choice # None /\ ~Truthy(new_part)
     \/ pc = "sleep" /\ outcome = "RuntimeError")
        => /\ pc = "sleep"
           /\ outcome = "RuntimeError"
           /\ state.current_story # <<>>
           /\ ~Truthy(new_part)
           /\ Len(channel) = sentAtLoad
           /\ new_poll_message_id = None
           /\ saves = <<>>
           /\ STATE_FILE = fileAtLoad

\* C10 witness: a cycle that read a saved story was aborted for want of a
\* continuation
C10_Witness ==
    /\ pc = "sleep"
    /\ outcome = "RuntimeError"
    /\ STATE_FILE # None
    /\ state = DiskState
    /\ user_choice # None
    /\ new_part = None

InCycle == {"resolve", "story", "poll", "save"}

\* C11: once the loop has started no error of a cycle ends it: every cycle
\* that starts ends, its end is followed by the sleep and the next load,
\* and the next cycle starts (while the channel has room for its messages);
\* the process is at "exit" only when the configuration was refused.
C11_LoopGoesOn ==
    /\ (pc \in InCycle) ~> (pc = "sleep")
    /\ (pc = "sleep") ~> (pc = "load")
    /\ (pc = "load" /\ Len(channel) + 2 <= MaxLoopMessages) ~> (pc = "resolve")
    /\ [](pc = "exit" =>
            /\ ~validate_config(BOT_TOKEN, CHANNEL_ID, INITIAL_STORY_IDEA)
            /\ channel = <<>>)

\* C11 witness: a cycle runs after a cycle that published the start of the
\* story and then ended through an exception handler
C11_Witness ==
    /\ pc = "resolve"
    /\ sentAtLoad = 1
    /\ STATE_FILE = None
    /\ channel[1] = Message(INITIAL_STORY_IDEA)

\* C12: in every cycle save_state is called at most once, at the end and on
\* the success path only: after send_poll of the same cycle returned the id
\* of the poll, and never in a cycle that raised; the state file changes only
\* by that call.
C12_SaveOnceAtEnd ==
    /\ Len(saves) <= 1
    /\ saves # <<>> =>
          /\ pc \in {"sleep", "killed"}
          /\ outcome \in {"ok", "running"}
          /\ Len(channel) > sentAtLoad
          /\ new_poll_message_id = Some(Len(channel))
          /\ channel[Len(channel)].kind = "poll"
    /\ outcome \in HandlerOutcomes => saves = <<>>
    /\ (pc \in InCycle \union {"sleep", "killed"} /\ STATE_FILE # fileAtLoad)
          => saves = <<"ok">>

\* C12 witness: a later cycle published its poll and then saved once
C12_Witness ==
    /\ pc = "sleep"
    /\ outcome = "ok"
    /\ saves = <<"ok">>
    /\ fileAtLoad # None
    /\ sentAtLoad >= 2
    /\ new_poll_message_id = Some(Len(channel))

\* C13: when save_state fails, or the process is killed, after the temporary
\* file is written and before it is renamed over the target, the state file
\* is the one that existed before the save began, and it is what the next
\* load_state reads.
C13_AtomicSave ==
    (Len(saves) = 1 /\ saves[1] \in {"failed", "interrupted"})
        => /\ STATE_FILE = fileAtLoad
           /\ load_state(STATE_FILE, TRUE) = load_state(fileAtLoad, TRUE)

\* C13 witness: the process was killed between the write and the rename of
\* a save that would have replaced an existing state file
C13_Witness ==
    /\ pc = "killed"
    /\ saves = <<"interrupted">>
    /\ fileAtLoad # None
    /\ tmp # None
    /\ tmp # STATE_FILE
    /\ STATE_FILE = fileAtLoad

BracesInside ==
    /\ \A i \in DOMAIN parts.before : parts.before[i] # "{"
    /\ \A i \in DOMAIN parts.after : parts.after[i] # "}"

\* C15 as stated: whatever the prose around it, _extract_json returns the
\* embedded object.
C15_ReturnsEmbedded ==
    pc = "extracted" => data = Some(parts.value)

\* C15, amended: _extract_json returns the embedded object when the prose
\* has no opening brace before the object and no closing brace after it, and
\* the trimmed text as a whole is not a JSON value; when the whole text is a
\* JSON value, it returns that value.
C15_ReturnsEmbeddedBetweenBraces ==
    pc = "extracted" =>
        /\ (BracesInside /\ json_loads(Trim(text)) = None) => data = Some(parts.value)
        /\ json_loads(Trim(text)) # None => data = json_loads(Trim(text))

C15_Witness ==
    /\ pc = "extracted"
    /\ BracesInside
    /\ json_loads(Trim(text)) = None
    /\ parts.before # <<>>
    /\ parts.after # <<>>
    /\ \E i \in DOMAIN parts.before : parts.before[i] = "}"
    /\ parts.value = <<"{", Quote, Quote, ":", "{", "}", "}">>
    /\ data = Some(parts.value)

\* ---- C16 ----

\* step 1 is over, a poll id was persisted and get_poll_winner returned None
ResolvedNone ==
    /\ pc \in InCycle \union {"sleep", "killed"}
    /\ last_poll_message_id # None
    /\ next_prompt # None
    /\ ~Truthy(poll_winner)

\* the cycle published a story message and a new poll and called save_state
C16_PublishedAndSaved ==
    /\ Len(channel) = sentAtLoad + 2
    /\ new_part # None
    /\ channel[sentAtLoad + 1] = Message(new_part[1])
    /\ channel[sentAtLoad + 2].kind = "poll"
    /\ new_poll_message_id = Some(sentAtLoad + 2)
    /\ Len(saves) = 1
    /\ saves = <<"ok">> =>
          STATE_FILE = Some(NewState(current_story, last_poll_message_id,
                                     new_poll_message_id))

\* C16: when a poll id is persisted and get_poll_winner returns None, step 1
\* does not abort the cycle: it goes on to step 2 with the initial story idea
\* as the prompt, which is the prompt the story generator gets; the cycle is
\* aborted only by a failure after the generator was called, and a cycle
\* without such a failure publishes the new part and a new poll and calls
\* save_state.
C16_NoWinnerGoesOn ==
    /\ [](ResolvedNone =>
            /\ next_prompt = Some(INITIAL_STORY_IDEA)
            /\ user_choice \in {None, Some(INITIAL_STORY_IDEA)}
            /\ pc \in {"sleep", "killed"} => user_choice = Some(INITIAL_STORY_IDEA)
            /\ outcome \in HandlerOutcomes => user_choice = Some(INITIAL_STORY_IDEA)
            /\ outcome = "RuntimeError" => ~Truthy(new_part)
            /\ (pc = "sleep" /\ outcome = "ok") => C16_PublishedAndSaved)
    /\ [][(/\ pc = "resolve"
           /\ last_poll_message_id # None
           /\ ~Truthy(poll_winner')
           /\ outcome' # "Exception")
              => /\ pc' = "story"
                 /\ outcome' = outcome
                 /\ next_prompt' = Some(INITIAL_STORY_IDEA)]_vars

\* C16 witness: stop_poll failed on the persisted poll, and the cycle went on
\* to publish a part and a new poll and saved
C16_Witness ==
    /\ pc = "sleep"
    /\ outcome = "ok"
    /\ ResolvedNone
    /\ ~channel[last_poll_message_id[1]].closed
    /\ user_choice = Some(INITIAL_STORY_IDEA)
    /\ C16_PublishedAndSaved
    /\ saves = <<"ok">>

\* ---- C17 ----

\* C17: the second fixed fallback set is never handed to send_poll and never
\* published: generate_poll_options returns None or exactly 4 strings, and
\* the value whose length step 3 checks, that result or the first fallback
\* set, always has exactly 4 entries.
C17_SecondFallbackUnused ==
    /\ poll_options # FallbackB
    /\ poll_options # <<>> =>
          LET generated == generate_poll_options(options_raw)
              checked == GeneratedOrFallback(generated)
          IN  /\ generated # None => Len(generated[1]) = 4
              /\ Len(checked) = 4
              /\ poll_options =
                    [i \in 1..4 |-> Prefix(checked[i], MaxOptionChars)]
    /\ \A i \in PollIds : channel[i].options # FallbackB

\* C17 witness: the generator gave no usable set and the poll published is
\* the first fallback set
C17_Witness ==
    /\ pc = "save"
    /\ options_raw # None
    /\ generate_poll_options(options_raw) = None
    /\ poll_options = FallbackA
    /\ new_poll_message_id = Some(Len(channel))
    /\ channel[Len(channel)].options = FallbackA
    /\ Cardinality(PollIds) >= 2

\* ---- C18 ----

\* the texts of the story messages of the channel, in publication order
RECURSIVE PublishedSegments(_)
PublishedSegments(msgs) ==
    IF msgs = <<>> THEN <<>>
    ELSE IF msgs[1].kind = "message"
         THEN <<msgs[1].text>> \o PublishedSegments(Tail(msgs))
         ELSE PublishedSegments(Tail(msgs))

\* the stories made of some of the segments, in their order, joined as
\* run_story_step joins them
RECURSIVE StoriesOf(_)
StoriesOf(segments) ==
    IF segments = <<>> THEN {<<>>}
    ELSE LET n == Len(segments)
             shorter == StoriesOf(SubSeq(segments, 1, n - 1))
         IN  shorter \union
             {IF s = <<>> THEN segments[n] ELSE AppendPart(s, segments[n]) :
                 s \in shorter}

\* C18: the story on disk, and the story of a temporary file left behind, is
\* made only of segments already published to the channel, in publication
\* order; published segments may be missing from it.
C18_DiskStoryPublished ==
    /\ DiskStory \in StoriesOf(PublishedSegments(channel))
    /\ tmp # None =>
          tmp[1].current_story \in StoriesOf(PublishedSegments(channel))

\* C18 witness: a part was published in a cycle that then failed, and the
\* next cycle saved a story with a later part and without that one
C18_Witness ==
    /\ pc = "sleep"
    /\ saves = <<"ok">>
    /\ Len(PublishedSegments(channel)) = 3
    /\ DiskStory = AppendPart(PublishedSegments(channel)[1],
                              PublishedSegments(channel)[3])

\* ---- C19 ----

\* the polls of the channel that stop_poll has not closed
OpenPolls == {i \in PollIds : ~channel[i].closed}

\* C19 as stated: at most one poll published by the bot is open at any time;
\* a new poll is published only after the one before it was closed.
C19_OnePollOpen ==
    Cardinality(OpenPolls) <= 1

\* ---- C20 ----

\* a state with a story and the id of a poll this cycle published
SavedInCycle(st) ==
    /\ st.current_story # <<>>
    /\ st.last_poll_message_id # None
    /\ st.last_poll_message_id = new_poll_message_id
    /\ st.last_poll_message_id[1] \in PollIds
    /\ st.last_poll_message_id[1] > sentAtLoad

\* a state file with a story and the id of a published poll
WellFormedFile(file) ==
    file # None =>
        /\ file[1].current_story # <<>>
        /\ file[1].last_poll_message_id # None
        /\ file[1].last_poll_message_id[1] \in PollIds

\* C20: every state handed to save_state, and every state it wrote in this
\* cycle, has a non-empty story and the id that send_poll returned in the
\* same cycle; the state file, and a temporary file left behind, never holds
\* a poll id with an empty story, nor a story without a poll id.
C20_SavedStateComplete ==
    /\ pc = "save" =>
          SavedInCycle(NewState(current_story, last_poll_message_id,
                                new_poll_message_id))
    /\ saves # <<>> =>
          SavedInCycle(NewState(current_story, last_poll_message_id,
                                new_poll_message_id))
    /\ (saves = <<"ok">> /\ pc = "sleep") => SavedInCycle(STATE_FILE[1])
    /\ WellFormedFile(STATE_FILE)
    /\ WellFormedFile(tmp)
    /\ DiskState.last_poll_message_id # None => DiskStory # <<>>

\* C20 witness: a later cycle replaced the saved state by a longer story and
\* the id of the poll it published
C20_Witness ==
    /\ pc = "sleep"
    /\ saves = <<"ok">>
    /\ fileAtLoad # None
    /\ STATE_FILE # fileAtLoad
    /\ SavedInCycle(STATE_FILE[1])
    /\ STATE_FILE[1].last_poll_message_id = Some(Len(channel))
    /\ fileAtLoad[1].last_poll_message_id # STATE_FILE[1].last_poll_message_id


====
